---- MODULE Spec2Model ----
(***************************************************************************)
(* Model of pyfr/readers/nodemaps.py: the class GmshNodeMaps, whose body   *)
(* binds two class attributes,                                             *)
(*   to_pyfr   - a dict literal keyed by (element type, number of points), *)
(*               each value the array mapping a Gmsh node number to the    *)
(*               PyFR node number;                                         *)
(*   from_pyfr - {k: np.argsort(v) for k, v in to_pyfr.iteritems()}.       *)
(* An np.array is modelled as a TLA+ sequence; Python indexes from 0, so   *)
(* a[i] in the source is Item(a, i) == a[i + 1] here.  A dict is a         *)
(* function from keys (pairs <<type, count>>) to arrays.                   *)
(***************************************************************************)
EXTENDS Integers, Sequences, FiniteSets, TLC

(***************************************************************************)
(* The arrays of the to_pyfr literal, one definition per dictionary item.  *)
(***************************************************************************)
\* tet4 with a fifth entry
tet4_Long ==
    <<0, 1, 2, 3, 4>>

\* to_pyfr['tet', 4] (lines 31-31)
tet4 ==
    <<0, 1, 2, 3>>

\* to_pyfr['tet', 10] (lines 32-32)
tet10 ==
    <<0, 2, 5, 9, 1, 4, 3, 6, 8, 7>>

\* to_pyfr['tet', 20] (lines 33-34)
tet20 ==
    <<0, 3, 9, 19, 1, 2, 6, 8, 7, 4, 16, 10, 18, 15, 17, 12, 5, 11, 13, 14>>

\* to_pyfr['tet', 35] (lines 35-37)
tet35 ==
    <<0, 4, 14, 34, 1, 2, 3, 8, 11, 13, 12, 9, 5, 31, 25, 15, 33, 30, 24,
      32, 27, 18, 6, 10, 7, 16, 17, 26, 19, 28, 22, 29, 21, 23, 20>>

\* to_pyfr['tet', 56] (lines 38-42)
tet56 ==
    <<0, 5, 20, 55, 1, 2, 3, 4, 10, 14, 17, 19, 18, 15, 11, 6, 52, 46, 36,
      21, 54, 51, 45, 35, 53, 48, 39, 25, 7, 16, 9, 12, 13, 8, 22, 24, 47,
      23, 38, 37, 26, 49, 33, 40, 43, 30, 50, 29, 34, 42, 32, 44, 27, 28,
      31, 41>>

\* to_pyfr['tet', 84] (lines 43-49)
tet84 ==
    <<0, 6, 27, 83, 1, 2, 3, 4, 5, 12, 17, 21, 24, 26, 25, 22, 18, 13, 7,
      80, 74, 64, 49, 28, 82, 79, 73, 63, 48, 81, 76, 67, 53, 33, 8, 23, 11,
      14, 19, 20, 16, 10, 9, 15, 29, 32, 75, 30, 31, 52, 66, 65, 50, 51, 34,
      77, 46, 54, 68, 71, 61, 43, 39, 58, 78, 38, 47, 70, 57, 42, 45, 62,
      72, 60, 35, 37, 44, 69, 36, 41, 40, 55, 59, 56>>

\* to_pyfr['pri', 6] (lines 50-50)
pri6 ==
    <<0, 1, 2, 3, 4, 5>>

\* to_pyfr['pri', 18] (lines 51-52)
pri18 ==
    <<0, 2, 5, 12, 14, 17, 1, 3, 6, 4, 8, 11, 13, 15, 16, 7, 9, 10>>

\* to_pyfr['pri', 40] (lines 53-56)
pri40 ==
    <<0, 3, 9, 30, 33, 39, 1, 2, 4, 7, 10, 20, 6, 8, 13, 23, 19, 29, 31, 32,
      34, 37, 36, 38, 5, 35, 11, 12, 22, 21, 14, 24, 27, 17, 16, 18, 28, 26,
      15, 25>>

\* to_pyfr['pri', 75] (lines 57-63)
pri75 ==
    <<0, 4, 14, 60, 64, 74, 1, 2, 3, 5, 9, 12, 15, 30, 45, 8, 11, 13, 19,
      34, 49, 29, 44, 59, 61, 62, 63, 65, 69, 72, 68, 71, 73, 6, 10, 7, 66,
      67, 70, 16, 18, 48, 46, 17, 33, 47, 31, 32, 20, 50, 57, 27, 35, 54,
      42, 24, 39, 23, 28, 58, 53, 26, 43, 56, 38, 41, 21, 51, 36, 22, 52,
      37, 25, 55, 40>>

\* to_pyfr['pri', 126] (lines 64-75)
pri126 ==
    <<0, 5, 20, 105, 110, 125, 1, 2, 3, 4, 6, 11, 15, 18, 21, 42, 63, 84,
      10, 14, 17, 19, 26, 47, 68, 89, 41, 62, 83, 104, 106, 107, 108, 109,
      111, 116, 120, 123, 115, 119, 122, 124, 7, 16, 9, 12, 13, 8, 112, 114,
      121, 113, 118, 117, 22, 25, 88, 85, 23, 24, 46, 67, 87, 86, 64, 43,
      44, 45, 66, 65, 27, 90, 102, 39, 48, 69, 95, 99, 81, 60, 36, 32, 53,
      74, 78, 57, 31, 40, 103, 94, 35, 38, 61, 82, 101, 98, 73, 52, 56, 59,
      80, 77, 28, 91, 49, 70, 30, 93, 51, 72, 37, 100, 58, 79, 29, 92, 50,
      71, 34, 97, 55, 76, 33, 96, 54, 75>>

\* to_pyfr['pri', 196] (lines 76-95)
pri196 ==
    <<0, 6, 27, 168, 174, 195, 1, 2, 3, 4, 5, 7, 13, 18, 22, 25, 28, 56, 84,
      112, 140, 12, 17, 21, 24, 26, 34, 62, 90, 118, 146, 55, 83, 111, 139,
      167, 169, 170, 171, 172, 173, 175, 181, 186, 190, 193, 180, 185, 189,
      192, 194, 8, 23, 11, 14, 19, 20, 16, 10, 9, 15, 176, 179, 191, 177,
      178, 184, 188, 187, 182, 183, 29, 33, 145, 141, 30, 31, 32, 61, 89,
      117, 144, 143, 142, 113, 85, 57, 58, 60, 116, 114, 59, 88, 115, 86,
      87, 35, 147, 165, 53, 63, 91, 119, 153, 158, 162, 137, 109, 81, 50,
      46, 41, 69, 125, 134, 78, 97, 130, 106, 74, 102, 40, 54, 166, 152, 45,
      49, 52, 82, 110, 138, 164, 161, 157, 124, 96, 68, 73, 80, 136, 129,
      77, 108, 133, 101, 105, 36, 148, 64, 92, 120, 39, 151, 67, 95, 123,
      51, 163, 79, 107, 135, 37, 149, 65, 93, 121, 38, 150, 66, 94, 122, 44,
      156, 72, 100, 128, 48, 160, 76, 104, 132, 47, 159, 75, 103, 131, 42,
      154, 70, 98, 126, 43, 155, 71, 99, 127>>

\* to_pyfr['hex', 8] (lines 96-96)
hex8 ==
    <<0, 1, 3, 2, 4, 5, 7, 6>>

\* to_pyfr['hex', 27] (lines 97-99)
hex27 ==
    <<0, 2, 8, 6, 18, 20, 26, 24, 1, 3, 9, 5, 11, 7, 17, 15, 19, 21, 23, 25,
      4, 10, 12, 14, 16, 22, 13>>

\* hex64 with the entries at 4 and 5 exchanged
hex64_Swapped ==
    <<0, 3, 15, 12, 51, 48, 63, 60, 1, 2, 4, 8, 16, 32, 7, 11, 19, 35, 14,
      13, 31, 47, 28, 44, 49, 50, 52, 56, 55, 59, 62, 61, 5, 9, 10, 6, 17,
      18, 34, 33, 20, 36, 40, 24, 23, 27, 43, 39, 30, 29, 45, 46, 53, 54,
      58, 57, 21, 22, 26, 25, 37, 38, 42, 41>>

\* to_pyfr['hex', 64] (lines 100-105)
hex64 ==
    <<0, 3, 15, 12, 48, 51, 63, 60, 1, 2, 4, 8, 16, 32, 7, 11, 19, 35, 14,
      13, 31, 47, 28, 44, 49, 50, 52, 56, 55, 59, 62, 61, 5, 9, 10, 6, 17,
      18, 34, 33, 20, 36, 40, 24, 23, 27, 43, 39, 30, 29, 45, 46, 53, 54,
      58, 57, 21, 22, 26, 25, 37, 38, 42, 41>>

\* to_pyfr['hex', 125] (lines 106-116)
hex125 ==
    <<0, 4, 24, 20, 100, 104, 124, 120, 1, 2, 3, 5, 10, 15, 25, 50, 75, 9,
      14, 19, 29, 54, 79, 23, 22, 21, 49, 74, 99, 45, 70, 95, 101, 102, 103,
      105, 110, 115, 109, 114, 119, 123, 122, 121, 6, 16, 18, 8, 11, 17, 13,
      7, 12, 26, 28, 78, 76, 27, 53, 77, 51, 52, 30, 80, 90, 40, 55, 85, 65,
      35, 60, 34, 44, 94, 84, 39, 69, 89, 59, 64, 48, 46, 96, 98, 47, 71,
      97, 73, 72, 106, 108, 118, 116, 107, 113, 117, 111, 112, 31, 33, 43,
      41, 81, 83, 93, 91, 32, 36, 56, 38, 58, 42, 68, 66, 82, 86, 88, 92,
      37, 57, 61, 63, 67, 87, 62>>

\* to_pyfr['hex', 216] (lines 117-138)
hex216 ==
    <<0, 5, 35, 30, 180, 185, 215, 210, 1, 2, 3, 4, 6, 12, 18, 24, 36, 72,
      108, 144, 11, 17, 23, 29, 41, 77, 113, 149, 34, 33, 32, 31, 71, 107,
      143, 179, 66, 102, 138, 174, 181, 182, 183, 184, 186, 192, 198, 204,
      191, 197, 203, 209, 214, 213, 212, 211, 7, 25, 28, 10, 13, 19, 26, 27,
      22, 16, 9, 8, 14, 20, 21, 15, 37, 40, 148, 145, 38, 39, 76, 112, 147,
      146, 109, 73, 74, 75, 111, 110, 42, 150, 168, 60, 78, 114, 156, 162,
      132, 96, 54, 48, 84, 120, 126, 90, 47, 65, 173, 155, 53, 59, 101, 137,
      167, 161, 119, 83, 89, 95, 131, 125, 70, 67, 175, 178, 69, 68, 103,
      139, 176, 177, 142, 106, 105, 104, 140, 141, 187, 190, 208, 205, 188,
      189, 196, 202, 207, 206, 199, 193, 194, 195, 201, 200, 43, 46, 64, 61,
      151, 154, 172, 169, 44, 45, 49, 55, 79, 115, 52, 58, 82, 118, 63, 62,
      100, 136, 97, 133, 152, 153, 157, 163, 160, 166, 171, 170, 50, 56, 57,
      51, 80, 81, 117, 116, 85, 121, 127, 91, 88, 94, 130, 124, 99, 98, 134,
      135, 158, 159, 165, 164, 86, 87, 93, 92, 122, 123, 129, 128>>

\* tri3 with an entry repeated
tri3_Repeated ==
    <<0, 1, 1>>

\* to_pyfr['tri', 3] (lines 139-139)
tri3 ==
    <<0, 1, 2>>

\* to_pyfr['tri', 6] (lines 140-140)
tri6 ==
    <<0, 2, 5, 1, 4, 3>>

\* to_pyfr['tri', 10] (lines 141-141)
tri10 ==
    <<0, 3, 9, 1, 2, 6, 8, 7, 4, 5>>

\* to_pyfr['tri', 15] (lines 142-143)
tri15 ==
    <<0, 4, 14, 1, 2, 3, 8, 11, 13, 12, 9, 5, 6, 7, 10>>

\* to_pyfr['tri', 21] (lines 144-145)
tri21 ==
    <<0, 5, 20, 1, 2, 3, 4, 10, 14, 17, 19, 18, 15, 11, 6, 7, 8, 9, 13, 16,
      12>>

\* quad4 with the entries 2 and 3 both sent to 3
quad4_Collide ==
    <<0, 1, 3, 3>>

\* to_pyfr['quad', 4] (lines 146-146)
quad4 ==
    <<0, 1, 3, 2>>

\* to_pyfr['quad', 9] (lines 147-147)
quad9 ==
    <<0, 2, 8, 6, 1, 5, 7, 3, 4>>

\* to_pyfr['quad', 16] (lines 148-149)
quad16 ==
    <<0, 3, 15, 12, 1, 2, 7, 11, 14, 13, 8, 4, 5, 6, 10, 9>>

\* to_pyfr['quad', 25] (lines 150-151)
quad25 ==
    <<0, 4, 24, 20, 1, 2, 3, 9, 14, 19, 23, 22, 21, 15, 10, 5, 6, 8, 18, 16,
      7, 13, 17, 11, 12>>

\* to_pyfr['quad', 36] (lines 152-154)
quad36 ==
    <<0, 5, 35, 30, 1, 2, 3, 4, 11, 17, 23, 29, 34, 33, 32, 31, 24, 18, 12,
      6, 7, 10, 28, 25, 8, 9, 16, 22, 27, 26, 19, 13, 14, 15, 21, 20>>

(***************************************************************************)
(* The dict literal of lines 30-155, grouped by element type.              *)
(***************************************************************************)
TetItems ==
    (<<"tet", 4>> :> tet4) @@ (<<"tet", 10>> :> tet10) @@
    (<<"tet", 20>> :> tet20) @@ (<<"tet", 35>> :> tet35) @@
    (<<"tet", 56>> :> tet56) @@ (<<"tet", 84>> :> tet84)

PriItems ==
    (<<"pri", 6>> :> pri6) @@ (<<"pri", 18>> :> pri18) @@
    (<<"pri", 40>> :> pri40) @@ (<<"pri", 75>> :> pri75) @@
    (<<"pri", 126>> :> pri126) @@ (<<"pri", 196>> :> pri196)

HexItems ==
    (<<"hex", 8>> :> hex8) @@ (<<"hex", 27>> :> hex27) @@
    (<<"hex", 64>> :> hex64) @@ (<<"hex", 125>> :> hex125) @@
    (<<"hex", 216>> :> hex216)

\* TriItems with the first key mistyped
TriItems_Typo ==
    (<<"tri", 4>> :> tri3) @@ (<<"tri", 6>> :> tri6) @@
    (<<"tri", 10>> :> tri10) @@ (<<"tri", 15>> :> tri15) @@
    (<<"tri", 21>> :> tri21)

TriItems ==
    (<<"tri", 3>> :> tri3) @@ (<<"tri", 6>> :> tri6) @@
    (<<"tri", 10>> :> tri10) @@ (<<"tri", 15>> :> tri15) @@
    (<<"tri", 21>> :> tri21)

QuadItems ==
    (<<"quad", 4>> :> quad4) @@ (<<"quad", 9>> :> quad9) @@
    (<<"quad", 16>> :> quad16) @@ (<<"quad", 25>> :> quad25) @@
    (<<"quad", 36>> :> quad36)

DictLiteral ==
    TetItems @@ PriItems @@ HexItems @@ TriItems @@ QuadItems

(***************************************************************************)
(* Python values.                                                          *)
(***************************************************************************)
\* a dict with no items; also the value of a name not bound yet
EmptyDict == [k \in {} |-> <<>>]

\* a[i], Python's 0-based subscript of an array
Item(a, i) == a[i + 1]

\* range(len(a)), the valid subscripts of an array
Indices(a) == 0 .. (Len(a) - 1)

(***************************************************************************)
(* np.argsort(v): the indices that sort v.  Entry r of the result is the   *)
(* index whose value has r values before it in sorted order; equal values  *)
(* are ordered by index (the arrays of the literal hold no equal values).  *)
(***************************************************************************)
\* the number of entries of v sorted before entry i
SortRank(v, i) ==
    Cardinality({j \in Indices(v) :
                   \/ Item(v, j) < Item(v, i)
                   \/ (Item(v, j) = Item(v, i) /\ j < i)})

\* np.sort(v): the sorted values instead of the indices that sort
Argsort_Sort(v) ==
    LET ranked == {<<SortRank(v, i), i>> : i \in Indices(v)}
    IN  [r \in 1 .. Len(v) |->
            Item(v, (CHOOSE p \in ranked : p[1] = r - 1)[2])]

Argsort(v) ==
    LET ranked == {<<SortRank(v, i), i>> : i \in Indices(v)}
    IN  [r \in 1 .. Len(v) |-> (CHOOSE p \in ranked : p[1] = r - 1)[2]]

(***************************************************************************)
(* d[k] on a plain dict: the value stored under k, or KeyError.  The       *)
(* record also carries the dict as the subscript leaves it (unchanged: a   *)
(* plain dict inserts nothing on a miss) and how many np.argsort calls the *)
(* subscript ran (none: the values are stored arrays).                     *)
(***************************************************************************)
\* d.get(k, <empty array>): a miss yields a default instead of KeyError
Getitem_Get(d, k) ==
    [status |-> "ok", value |-> IF k \in DOMAIN d THEN d[k] ELSE <<>>,
     dict |-> d, argsorts |-> 0]

\* d[k] on a defaultdict: a miss stores an empty array under k
Getitem_Defaultdict(d, k) ==
    IF k \in DOMAIN d
    THEN [status |-> "ok", value |-> d[k], dict |-> d, argsorts |-> 0]
    ELSE [status |-> "ok", value |-> <<>>, dict |-> (k :> <<>>) @@ d,
          argsorts |-> 0]

\* d[k] where the value is computed by np.argsort on every access
Getitem_Recompute(d, k) ==
    IF k \in DOMAIN d
    THEN [status |-> "ok", value |-> d[k], dict |-> d, argsorts |-> 1]
    ELSE [status |-> "KeyError", value |-> <<>>, dict |-> d, argsorts |-> 0]

Getitem(d, k) ==
    IF k \in DOMAIN d
    THEN [status |-> "ok", value |-> d[k], dict |-> d, argsorts |-> 0]
    ELSE [status |-> "KeyError", value |-> <<>>, dict |-> d, argsorts |-> 0]

(***************************************************************************)
(* Reordering a per-node array with a table, result[table[i]] = data[i]    *)
(* for i = 0, 1, ..., in that order, into a new array whose entries start  *)
(* unset.  The input array is only read.                                   *)
(***************************************************************************)
\* an entry of the result no assignment has reached
Unset == -1

RECURSIVE ScatterRange(_, _, _, _, _)
\* res after the assignments res[table[i]] = data[i] for i = lo .. hi, in
\* that order: the lower half of the range, then the upper half on its
\* result (an assignment never changes the length of the array, so the
\* test on the lengths only orders the two evaluations)
ScatterRange(table, data, res, lo, hi) ==
    IF lo > hi THEN res
    ELSE IF lo = hi
    THEN IF Item(table, lo) \in Indices(res)
         THEN [res EXCEPT ![Item(table, lo) + 1] = Item(data, lo)]
         ELSE res
    ELSE LET mid == (lo + hi) \div 2
             low == ScatterRange(table, data, res, lo, mid)
         IN  IF Len(low) = Len(res)
             THEN ScatterRange(table, data, low, mid + 1, hi)
             ELSE low

Scatter(table, data) ==
    ScatterRange(table, data, [j \in 1 .. Len(table) |-> Unset],
                 0, Len(table) - 1)

\* reorder(data, key, direction) over the two dicts: the lookup first, then
\* the length check, then the permutation; `after` is the input array as
\* the call leaves it
Reorder(fwd, inv, data, key, dir) ==
    LET r == Getitem(IF dir = "toInternal" THEN fwd ELSE inv, key)
    IN  IF r.status # "ok"
        THEN [status |-> "KeyError", value |-> <<>>, after |-> data,
              argsorts |-> r.argsorts]
        ELSE IF Len(data) # Len(r.value)
        THEN [status |-> "LengthMismatchError", value |-> <<>>,
              after |-> data, argsorts |-> r.argsorts]
        ELSE [status |-> "ok", value |-> Scatter(r.value, data),
              after |-> data, argsorts |-> r.argsorts]

(***************************************************************************)
(* Bounds of the model and the inputs drawn for the calls.                 *)
(***************************************************************************)
\* iteration orders of to_pyfr.iteritems() tried: rotations 0 .. MaxRot of
\* one enumeration of the keys (a Python 2 dict iterates in an order the
\* program does not control)
MaxRot == 3

\* number of payloads tried per array length
NBases == 2

\* longest chain of reorder calls, each fed the result of the one before
MaxChain == 2

\* number of threads that access the class concurrently
NThreads == 2

Threads == 1 .. NThreads

Directions == {"toInternal", "toExternal"}

\* keys that are not items of the literal
UnsupportedSamples ==
    {<<"hex", 7>>, <<"tet", 5>>, <<"quad", 8>>, <<"line", 2>>, <<"tri", 0>>}

\* the keys the callers ask for
RequestKeys == DOMAIN DictLiteral \cup UnsupportedSamples

\* the keys the concurrent threads ask for
ThreadKeys ==
    {<<"tet", 4>>, <<"hex", 64>>, <<"quad", 9>>, <<"hex", 7>>}

\* a per-node array of n distinct values
Payload(n, b) == [i \in 1 .. n |-> 1000 * b + (i - 1)]

RECURSIVE SetToSeq(_)
\* one enumeration of a set
SetToSeq(S) ==
    IF S = {} THEN <<>>
    ELSE LET x == CHOOSE y \in S : TRUE IN <<x>> \o SetToSeq(S \ {x})

Rotate(s, r) == SubSeq(s, r + 1, Len(s)) \o SubSeq(s, 1, r)

\* the orders in which d.iteritems() may yield the keys of d
IterOrders(d) ==
    {Rotate(SetToSeq(DOMAIN d), r) : r \in 0 .. MaxRot}

(***************************************************************************)
(* State.                                                                  *)
(***************************************************************************)
VARIABLES
    pc,         \* the statement of the class body to run next
    to_pyfr,    \* the class attribute to_pyfr
    from_pyfr,  \* the class attribute from_pyfr
    todo,       \* the keys iteritems() has still to yield, in order
    comp,       \* the dict the comprehension of line 157 is building
    ninv,       \* per key, the np.argsort calls made for it so far
    call,       \* the last call of the single caller, with its outcome
    obs         \* per thread, its last access to from_pyfr

vars == <<pc, to_pyfr, from_pyfr, todo, comp, ninv, call, obs>>

NoKey == <<"", 0>>

NoCall ==
    [op |-> "none", key |-> NoKey, trail |-> <<>>, orig |-> <<>>,
     data |-> <<>>, after |-> <<>>, status |-> "", value |-> <<>>]

NoObs == [op |-> "none", key |-> NoKey, status |-> "", value |-> <<>>]

Init ==
    /\ pc = "to_pyfr"
    /\ to_pyfr = EmptyDict
    /\ from_pyfr = EmptyDict
    /\ todo = <<>>
    /\ comp = EmptyDict
    /\ ninv = [k \in RequestKeys |-> 0]
    /\ call = NoCall
    /\ obs = [t \in Threads |-> NoObs]

\* ninv after n more np.argsort calls for key k
Counted(k, n) ==
    IF k \in DOMAIN ninv THEN [ninv EXCEPT ![k] = @ + n] ELSE ninv

(***************************************************************************)
(* The class body.                                                         *)
(***************************************************************************)
\* line 30: to_pyfr = { ... }
ExecToPyfr ==
    /\ pc = "to_pyfr"
    /\ to_pyfr' = DictLiteral
    /\ todo' \in IterOrders(DictLiteral)
    /\ comp' = EmptyDict
    /\ pc' = "from_pyfr"
    /\ UNCHANGED <<from_pyfr, ninv, call, obs>>

\* {k: v for k, v in ...}: the array itself, np.argsort left out
ComprehensionValue_Copy(k, v) == v

\* line 157, the value expression of the comprehension: np.argsort(v)
ComprehensionValue(k, v) == Argsort(v)

\* line 157, one item of the comprehension: comp[k] = np.argsort(v); the
\* array v is only read
ExecComprehensionItem ==
    /\ pc = "from_pyfr"
    /\ todo # <<>>
    /\ LET k == Head(todo)
           v == to_pyfr[k]
       IN  /\ comp' = (k :> ComprehensionValue(k, v)) @@ comp
           /\ ninv' = Counted(k, 1)
    /\ todo' = Tail(todo)
    /\ UNCHANGED <<pc, to_pyfr, from_pyfr, call, obs>>

\* line 157, the iterator is exhausted: from_pyfr = <the dict built>
ExecBindFromPyfr ==
    /\ pc = "from_pyfr"
    /\ todo = <<>>
    /\ from_pyfr' = comp
    /\ comp' = EmptyDict
    /\ pc' = "class"
    /\ UNCHANGED <<to_pyfr, todo, ninv, call, obs>>

\* end of the class statement: the name GmshNodeMaps is bound
ExecBindClass ==
    /\ pc = "class"
    /\ pc' = "done"
    /\ UNCHANGED <<to_pyfr, from_pyfr, todo, comp, ninv, call, obs>>

ClassBody ==
    \/ ExecToPyfr
    \/ ExecComprehensionItem
    \/ ExecBindFromPyfr
    \/ ExecBindClass

(***************************************************************************)
(* The calls of a caller that holds the class.  The caller keeps one       *)
(* outcome at a time: it drops the last before a call on fresh input.      *)
(***************************************************************************)
\* GmshNodeMaps.to_pyfr[k]
ForwardTable(k) ==
    /\ pc = "done"
    /\ call = NoCall
    /\ LET r == Getitem(to_pyfr, k)
       IN  /\ to_pyfr' = r.dict
           /\ ninv' = Counted(k, r.argsorts)
           /\ call' = [NoCall EXCEPT !.op = "forwardTable", !.key = k,
                                     !.status = r.status, !.value = r.value]
    /\ UNCHANGED <<pc, from_pyfr, todo, comp, obs>>

\* GmshNodeMaps.from_pyfr[k]
InverseTable(k) ==
    /\ pc = "done"
    /\ call = NoCall
    /\ LET r == Getitem(from_pyfr, k)
       IN  /\ from_pyfr' = r.dict
           /\ ninv' = Counted(k, r.argsorts)
           /\ call' = [NoCall EXCEPT !.op = "inverseTable", !.key = k,
                                     !.status = r.status, !.value = r.value]
    /\ UNCHANGED <<pc, to_pyfr, todo, comp, obs>>

\* reorder(data, k, dir) as a step of the caller
DoReorder(k, dir, data, trail, orig) ==
    /\ pc = "done"
    /\ LET r == Reorder(to_pyfr, from_pyfr, data, k, dir)
       IN  /\ ninv' = Counted(k, r.argsorts)
           /\ call' = [op |-> "reorder", key |-> k, trail |-> trail,
                       orig |-> orig, data |-> data, after |-> r.after,
                       status |-> r.status, value |-> r.value]
    /\ UNCHANGED <<pc, to_pyfr, from_pyfr, todo, comp, obs>>

\* reorder on a fresh array, of the key's length or one off it
ReorderFresh(k, dir, n, b) ==
    /\ call = NoCall
    /\ DoReorder(k, dir, Payload(n, b), <<dir>>, Payload(n, b))

\* reorder on the result of the reorder before, same key
ReorderAgain(dir) ==
    /\ call.op = "reorder"
    /\ call.status = "ok"
    /\ Len(call.trail) < MaxChain
    /\ DoReorder(call.key, dir, call.value, Append(call.trail, dir),
                 call.orig)

\* the caller drops the outcome of its last call
Discard ==
    /\ call # NoCall
    /\ call' = NoCall
    /\ UNCHANGED <<pc, to_pyfr, from_pyfr, todo, comp, ninv, obs>>

Calls ==
    \/ \E k \in RequestKeys : ForwardTable(k)
    \/ \E k \in RequestKeys : InverseTable(k)
    \/ \E k \in RequestKeys, dir \in Directions, b \in 0 .. (NBases - 1) :
         \E n \in {m \in {k[2] - 1, k[2], k[2] + 1} : m >= 0} :
           ReorderFresh(k, dir, n, b)
    \/ \E dir \in Directions : ReorderAgain(dir)
    \/ Discard

Next == ClassBody \/ Calls

Spec == Init /\ [][Next]_vars

(***************************************************************************)
(* Several threads that access GmshNodeMaps.from_pyfr while or after the   *)
(* class body runs.                                                        *)
(***************************************************************************)
\* thread t reaches for the class before the class statement has finished:
\* the name is not bound yet and the thread gets no table
ThreadEarly(t) ==
    /\ pc # "done"
    /\ obs[t] = NoObs
    /\ obs' = [obs EXCEPT ![t] = [NoObs EXCEPT !.op = "early",
                                                !.status = "unbound"]]
    /\ UNCHANGED <<pc, to_pyfr, from_pyfr, todo, comp, ninv, call>>

\* GmshNodeMaps.from_pyfr[k] by thread t
ThreadInverse(t, k) ==
    /\ pc = "done"
    /\ LET r == Getitem(from_pyfr, k)
       IN  /\ from_pyfr' = r.dict
           /\ ninv' = Counted(k, r.argsorts)
           /\ obs' = [obs EXCEPT ![t] = [op |-> "inverseTable", key |-> k,
                                         status |-> r.status,
                                         value |-> r.value]]
    /\ UNCHANGED <<pc, to_pyfr, todo, comp, call>>

\* reorder(range(N), k, toExternal) by thread t
ThreadReorder(t, k) ==
    /\ pc = "done"
    /\ LET r == Reorder(to_pyfr, from_pyfr, Payload(k[2], 0), k,
                        "toExternal")
       IN  /\ ninv' = Counted(k, r.argsorts)
           /\ obs' = [obs EXCEPT ![t] = [op |-> "reorder", key |-> k,
                                         status |-> r.status,
                                         value |-> r.value]]
    /\ UNCHANGED <<pc, to_pyfr, from_pyfr, todo, comp, call>>

ThreadCalls ==
    \/ \E t \in Threads : ThreadEarly(t)
    \/ \E t \in Threads, k \in ThreadKeys : ThreadInverse(t, k)
    \/ \E t \in Threads, k \in ThreadKeys : ThreadReorder(t, k)

NextThreads == ClassBody \/ ThreadCalls

SpecThreads == Init /\ [][NextThreads]_vars

(***************************************************************************)
(* Properties.                                                             *)
(***************************************************************************)
\* the keys of the literal
SupportedKeys == DOMAIN DictLiteral

\* a holds n entries and the set of its values is all of 0 .. n-1: each
\* value of 0 .. n-1 then occurs in it exactly once
IsPermutationOf(a, n) ==
    /\ Len(a) = n
    /\ {Item(a, i) : i \in Indices(a)} = 0 .. (n - 1)

\* C1: every item of to_pyfr, keyed (shape, N), is an array of exactly N
\* entries that holds each integer of 0 .. N-1 exactly once.
C1_ForwardBijection ==
    /\ pc # "to_pyfr" => DOMAIN to_pyfr # {}
    /\ \A k \in DOMAIN to_pyfr : IsPermutationOf(to_pyfr[k], k[2])

C1_Witness ==
    /\ call.op = "forwardTable"
    /\ call.key = <<"pri", 196>>
    /\ call.status = "ok"
    /\ Len(call.value) = 196
    /\ call.value # Payload(196, 0)

\* C2: once from_pyfr is bound, for every key both lookups succeed and the
\* array of from_pyfr is the functional inverse of the array of to_pyfr:
\* inverse[forward[i]] = i and forward[inverse[j]] = j for all i, j in
\* 0 .. N-1.
C2_InverseCorrect ==
    pc \in {"class", "done"} =>
        \A k \in SupportedKeys :
            LET f == Getitem(to_pyfr, k)
                g == Getitem(from_pyfr, k)
            IN  /\ f.status = "ok"
                /\ g.status = "ok"
                /\ Len(g.value) = k[2]
                /\ \A i \in 0 .. (k[2] - 1) :
                       /\ Item(g.value, Item(f.value, i)) = i
                       /\ Item(f.value, Item(g.value, i)) = i

C2_Witness ==
    /\ call.op = "inverseTable"
    /\ call.key = <<"hex", 64>>
    /\ call.status = "ok"
    /\ Item(call.value, 48) = 4
    /\ Item(to_pyfr[<<"hex", 64>>], 4) = 48

\* C3: reorder with a supported key on data of the key's length succeeds,
\* and reorder toInternal followed by reorder toExternal with the same key
\* returns the original data.
C3_RoundTrip ==
    call.op = "reorder" =>
        /\ (call.key \in SupportedKeys /\ Len(call.data) = call.key[2])
               => call.status = "ok"
        /\ call.trail = <<"toInternal", "toExternal">>
               => call.value = call.orig

C3_Witness ==
    /\ call.op = "reorder"
    /\ call.trail = <<"toInternal", "toExternal">>
    /\ call.key = <<"hex", 27>>
    /\ call.status = "ok"
    /\ call.data # call.orig
    /\ call.value = call.orig

\* C4: a successful reorder toInternal puts the value at external position i
\* at internal position forward[i], result[forward[i]] = data[i] for all i
\* in 0 .. N-1; a successful reorder toExternal does the mirror,
\* result[inverse[j]] = data[j].
C4_ReorderPlacement ==
    (call.op = "reorder" /\ call.status = "ok") =>
        LET dir == call.trail[Len(call.trail)]
            table == IF dir = "toInternal" THEN to_pyfr[call.key]
                     ELSE from_pyfr[call.key]
        IN  /\ Len(call.value) = call.key[2]
            /\ \A i \in 0 .. (call.key[2] - 1) :
                   Item(call.value, Item(table, i)) = Item(call.data, i)

C4_Witness ==
    /\ call.op = "reorder"
    /\ call.trail = <<"toInternal">>
    /\ call.key = <<"hex", 8>>
    /\ call.status = "ok"
    /\ Item(to_pyfr[<<"hex", 8>>], 2) = 3
    /\ Item(call.data, 2) = 1002
    /\ Item(call.value, 3) = 1002

\* C5: a lookup in to_pyfr or from_pyfr with a key that is not a key of the
\* literal fails with KeyError (the source's unsupported-key error), returns
\* no array, and leaves both dicts with exactly the keys of the literal.
C5_UnsupportedKey ==
    (call.op \in {"forwardTable", "inverseTable"}
         /\ call.key \notin SupportedKeys) =>
        /\ call.status = "KeyError"
        /\ call.value = <<>>
        /\ to_pyfr = DictLiteral
        /\ DOMAIN from_pyfr = SupportedKeys

C5_Witness ==
    /\ call.op = "inverseTable"
    /\ call.key = <<"hex", 7>>
    /\ call.status = "KeyError"
    /\ <<"hex", 8>> \in DOMAIN from_pyfr

\* C6: reorder with a supported key on data whose length differs from the
\* key's node count fails with LengthMismatchError and returns no array.
C6_LengthMismatch ==
    (call.op = "reorder" /\ call.key \in SupportedKeys
         /\ Len(call.data) # call.key[2]) =>
        /\ call.status = "LengthMismatchError"
        /\ call.value = <<>>

C6_Witness ==
    /\ call.op = "reorder"
    /\ call.key = <<"tet", 4>>
    /\ Len(call.data) = 5
    /\ call.status = "LengthMismatchError"

\* C7: once to_pyfr is bound, to_pyfr['hex', 64][4] is 48.
C7_Hex64Index4 ==
    pc # "to_pyfr" =>
        LET f == Getitem(to_pyfr, <<"hex", 64>>)
        IN  f.status = "ok" /\ Item(f.value, 4) = 48

C7_Witness ==
    /\ call.op = "forwardTable"
    /\ call.key = <<"hex", 64>>
    /\ call.status = "ok"
    /\ Item(call.value, 4) = 48

\* C8: once the class is bound, no step changes to_pyfr or from_pyfr, and a
\* reorder leaves the array it was given as it was.
C8_Immutable ==
    [][pc = "done" =>
          /\ to_pyfr' = to_pyfr
          /\ from_pyfr' = from_pyfr
          /\ call'.op = "reorder" => call'.after = call'.data]_vars

C8_Witness ==
    /\ pc = "done"
    /\ call.op = "reorder"
    /\ Len(call.trail) = 2
    /\ call.status = "ok"
    /\ call.value # call.data
    /\ call.after = call.data
    /\ to_pyfr = DictLiteral

\* C9: np.argsort runs at most once per key, whatever the threads call and
\* whenever they first reach for the class; two threads that got the
\* from_pyfr array of the same key got the same array, of the key's full
\* length.
C9_InvertedOnce ==
    /\ \A k \in DOMAIN ninv : ninv[k] <= 1
    /\ \A t \in Threads, u \in Threads :
           (/\ obs[t].op = "inverseTable" /\ obs[t].status = "ok"
            /\ obs[u].op = "inverseTable" /\ obs[u].status = "ok"
            /\ obs[t].key = obs[u].key) =>
               /\ obs[t].value = obs[u].value
               /\ Len(obs[t].value) = obs[t].key[2]

C9_Witness ==
    /\ obs[1].op = "inverseTable" /\ obs[1].status = "ok"
    /\ obs[2].op = "inverseTable" /\ obs[2].status = "ok"
    /\ obs[1].key = <<"hex", 64>>
    /\ obs[2].key = <<"hex", 64>>
    /\ ninv[<<"hex", 64>>] = 1

\* the keys given by the node-count formulas of the five shapes
FormulaKeys ==
    {<<"tet", ((p + 1) * (p + 2) * (p + 3)) \div 6>> : p \in 1 .. 6}
    \cup {<<"pri", ((p + 1) * (p + 1) * (p + 2)) \div 2>> : p \in 1 .. 6}
    \cup {<<"hex", (p + 1) * (p + 1) * (p + 1)>> : p \in 1 .. 5}
    \cup {<<"tri", ((p + 1) * (p + 2)) \div 2>> : p \in 1 .. 5}
    \cup {<<"quad", (p + 1) * (p + 1)>> : p \in 1 .. 5}

\* C10: from_pyfr, once bound, has exactly the keys of to_pyfr, and the
\* keys of to_pyfr are exactly those given by the node-count formulas: tet
\* (p+1)(p+2)(p+3)/6 and pri (p+1)^2(p+2)/2 for p = 1..6, hex (p+1)^3, tri
\* (p+1)(p+2)/2 and quad (p+1)^2 for p = 1..5.
C10_KeySet ==
    /\ pc # "to_pyfr" => DOMAIN to_pyfr = FormulaKeys
    /\ pc \in {"class", "done"} => DOMAIN from_pyfr = DOMAIN to_pyfr

C10_Witness ==
    /\ pc = "done"
    /\ call.op = "inverseTable"
    /\ call.key = <<"quad", 36>>
    /\ call.status = "ok"
    /\ Cardinality(DOMAIN from_pyfr) = 27

====
